---------------------------- MODULE Spec2Model ----------------------------
(***************************************************************************)
(* A model of the pattern-matching engine of zxcvbn-cpp,                    *)
(* native-src/zxcvbn/matching.cpp: omnimatch and its eight matchers.        *)
(*                                                                         *)
(* A string is a sequence of one-character strings; indices i, j of a      *)
(* Match are 0-based and inclusive, as in the source.  One call of         *)
(* omnimatch is one behaviour: Init draws the call's arguments, Start      *)
(* builds the dictionaries, one action per matcher appends that matcher's  *)
(* return value ret to matches (the loop at lines 155-158), Return sorts.  *)
(* matches keeps the order in which the loop built it; result is the       *)
(* vector the call returns.                                                *)
(***************************************************************************)
EXTENDS Integers, Sequences, FiniteSets, TLC

VARIABLES password, ordered_list, ranked_dictionaries, pc, ret, matches, result,
          stack, repeat_locals

\* stack holds the invocations of omnimatch that wait in repeat_match for the
\* nested omnimatch of line 504 (innermost last); the other variables are
\* those of the running invocation.  repeat_locals is <<>>, or the locals
\* lastIndex and matches of repeat_match while its loop runs step by step.
vars == <<password, ordered_list, ranked_dictionaries, pc, ret, matches, result,
          stack, repeat_locals>>

(***************************************************************************)
(* Characters.  Ascii is the printable ASCII range 32..126 in code-point   *)
(* order; Ord gives the code point (the value of a char in the source).    *)
(* Code point 96, the grave accent, has no string literal in TLA+ and is   *)
(* held by a name.                                                         *)
(***************************************************************************)
Ascii ==
  << " ", "!", "\"", "#", "$", "%", "&", "'", "(", ")", "*", "+", ",", "-", ".", "/",
     "0", "1", "2", "3", "4", "5", "6", "7", "8", "9", ":", ";", "<", "=", ">", "?",
     "@", "A", "B", "C", "D", "E", "F", "G", "H", "I", "J", "K", "L", "M", "N", "O",
     "P", "Q", "R", "S", "T", "U", "V", "W", "X", "Y", "Z", "[", "\\", "]", "^", "_",
     "GRAVE", "a", "b", "c", "d", "e", "f", "g", "h", "i", "j", "k", "l", "m", "n", "o",
     "p", "q", "r", "s", "t", "u", "v", "w", "x", "y", "z", "{", "|", "}", "~" >>

Char == {Ascii[k] : k \in 1..Len(Ascii)}

RECURSIVE OrdFrom(_)
OrdFrom(k) ==
  IF k = Len(Ascii) THEN Ascii[k] :> 31 + k
  ELSE (Ascii[k] :> 31 + k) @@ OrdFrom(k + 1)

OrdTable == OrdFrom(1)

Ord(c) == OrdTable[c]

Chr(n) == Ascii[n - 31]

IsDigit(c) == Ord(c) >= 48 /\ Ord(c) <= 57

IsUpper(c) == Ord(c) >= 65 /\ Ord(c) <= 90

IsLower(c) == Ord(c) >= 97 /\ Ord(c) <= 122

Min(a, b) == IF a <= b THEN a ELSE b

Abs(x) == IF x < 0 THEN -x ELSE x

\* std::string::substr(pos, n): n characters from 0-based pos, clipped at the end.
substr(s, pos, n) == SubSeq(s, pos + 1, Min(pos + n, Len(s)))

\* std::string::find(sub) != npos, for the one-character strings the source passes.
contains(s, c) == \E k \in 1..Len(s) : s[k] = c

\* util::ascii_lower: A-Z are folded, every other byte passes through.
ascii_lower(s) == [k \in 1..Len(s) |-> IF IsUpper(s[k]) THEN Chr(Ord(s[k]) + 32) ELSE s[k]]

\* util::reverse_string
reverse_string(s) == [k \in 1..Len(s) |-> s[Len(s) + 1 - k]]

(***************************************************************************)
(* sorted (lines 123-130).  std::sort orders by (i, j) and leaves the      *)
(* relative order of elements with equal (i, j) unspecified, so sorted is  *)
(* the set of the results a build may produce: every arrangement that is   *)
(* ascending in (i, j).                                                    *)
(***************************************************************************)
\* a comparator that looks at i alone
pair_less_i_only(m1, m2) == m1.i < m2.i

pair_less(m1, m2) == m1.i < m2.i \/ (m1.i = m2.i /\ m1.j < m2.j)

RECURSIVE Arrangements(_)
Arrangements(S) ==
  IF S = {} THEN {<<>>}
  ELSE UNION {{<<x>> \o p : p \in Arrangements(S \ {x})} : x \in S}

RECURSIVE sorted_from(_, _)
sorted_from(ms, left) ==
  IF left = {} THEN {<<>>}
  ELSE LET least == {k \in left : \A l \in left : ~pair_less(ms[l], ms[k])}
       IN  {[n \in 1..Len(p) |-> ms[p[n]]] \o rest :
              p \in Arrangements(least), rest \in sorted_from(ms, left \ least)}

sorted(ms) == sorted_from(ms, DOMAIN ms)

(***************************************************************************)
(* The dictionaries.  default_ranked_dicts() and build_ranked_dict() are   *)
(* the dictionary provider; the model has two small built-in dictionaries. *)
(* A ranked dictionary is a function from words to ranks.                  *)
(***************************************************************************)
DictionaryTag == {"PASSWORDS", "ENGLISH", "USER_INPUTS"}

default_ranked_dicts ==
  [tag \in {"PASSWORDS", "ENGLISH"} |->
     IF tag = "PASSWORDS"
       THEN (<<"p", "a", "s", "s", "w", "o", "r", "d">> :> 1) @@ (<<"c", "a", "t">> :> 2)
            @@ (<<"c", "b">> :> 3)
       ELSE (<<"a", "b">> :> 1) @@ (<<"a", "i">> :> 2) @@ (<<"a", "l">> :> 3)
            @@ (<<"c", "b">> :> 4)]

\* build_ranked_dict: each word lower-cased, ranked by its 1-based position.
build_ranked_dict(list) ==
  [w \in {ascii_lower(list[k]) : k \in DOMAIN list} |->
     CHOOSE k \in DOMAIN list : ascii_lower(list[k]) = w
                                /\ \A l \in 1..(k - 1) : ascii_lower(list[l]) # w]

(***************************************************************************)
(* dictionary_match (lines 166-195)                                        *)
(***************************************************************************)
DictionaryMatch(tag, word, rank, rev, l33t, sub, sub_display) ==
  [dictionary_tag |-> tag, matched_word |-> word, rank |-> rank, reversed |-> rev,
   l33t |-> l33t, sub |-> sub, sub_display |-> sub_display]

Match(i, j, token, pattern, payload) ==
  [i |-> i, j |-> j, token |-> token, pattern |-> pattern, payload |-> payload]

\* The iteration order of the unordered_map of dictionaries is unspecified;
\* TagOrder is one order, and sorted() covers the rest: only matches with
\* equal (i, j) come out in an order that depends on it.
TagOrder(dicts) ==
  CHOOSE order \in Arrangements(DOMAIN dicts) : TRUE

\* the loop looking up the substring as written, without ascii_lower
RECURSIVE dictionary_row_as_written(_, _, _, _, _)
dictionary_row_as_written(pw, dicts, tag, i, j) ==
  IF j >= Len(pw) THEN <<>>
  ELSE LET word == substr(pw, i, j - i + 1)
       IN  (IF word \in DOMAIN dicts[tag]
              THEN << Match(i, j, word, "dictionary",
                            DictionaryMatch(tag, word, dicts[tag][word],
                                            FALSE, FALSE, <<>>, <<>>)) >>
              ELSE <<>>)
           \o dictionary_row_as_written(pw, dicts, tag, i, j + 1)

\* the loop of lines 177-191 for one dictionary and one i, from j on
RECURSIVE dictionary_row(_, _, _, _, _)
dictionary_row(pw, dicts, tag, i, j) ==
  IF j >= Len(pw) THEN <<>>
  ELSE LET word == substr(ascii_lower(pw), i, j - i + 1)
       IN  (IF word \in DOMAIN dicts[tag]
              THEN << Match(i, j, substr(pw, i, j - i + 1), "dictionary",
                            DictionaryMatch(tag, word, dicts[tag][word],
                                            FALSE, FALSE, <<>>, <<>>)) >>
              ELSE <<>>)
           \o dictionary_row(pw, dicts, tag, i, j + 1)

\* the loop of lines 176-192 for one dictionary, from i on
RECURSIVE dictionary_scan(_, _, _, _)
dictionary_scan(pw, dicts, tag, i) ==
  IF i >= Len(pw) THEN <<>>
  ELSE dictionary_row(pw, dicts, tag, i, i) \o dictionary_scan(pw, dicts, tag, i + 1)

\* the loop of lines 173-193 over the dictionaries tags
RECURSIVE dictionary_emitted(_, _, _)
dictionary_emitted(pw, dicts, tags) ==
  IF tags = <<>> THEN <<>>
  ELSE dictionary_scan(pw, dicts, Head(tags), 0)
       \o dictionary_emitted(pw, dicts, Tail(tags))

\* the set of vectors dictionary_match may return
dictionary_match(pw, dicts) == sorted(dictionary_emitted(pw, dicts, TagOrder(dicts)))

(***************************************************************************)
(* reverse_dictionary_match (lines 197-213)                                *)
(***************************************************************************)
\* reverse_back without the mapping of the coordinates (lines 206-210)
reverse_back_unmapped(len, match) ==
  [match EXCEPT !.token = reverse_string(match.token),
                !.payload.reversed = TRUE]

\* reverse_back without the flag reversed (line 204)
reverse_back_unflagged(len, match) ==
  [match EXCEPT !.token = reverse_string(match.token),
                !.i = len - 1 - match.j,
                !.j = len - 1 - match.i]

\* lines 202-211: the token is reversed back and the coordinates are mapped
\* to the original string
reverse_back(len, match) ==
  [match EXCEPT !.token = reverse_string(match.token),
                !.payload.reversed = TRUE,
                !.i = len - 1 - match.j,
                !.j = len - 1 - match.i]

reverse_dictionary_match(pw, dicts) ==
  LET found == dictionary_emitted(reverse_string(pw), dicts, TagOrder(dicts))
  IN  sorted([k \in DOMAIN found |-> reverse_back(Len(pw), found[k])])

(***************************************************************************)
(* l33t_match (lines 25-38, 103-121, 219-349)                              *)
(***************************************************************************)
L33T_TABLE ==
  << <<"a", <<"4", "@">> >>,
     <<"b", <<"8">> >>,
     <<"c", <<"(", "{", "[", "<">> >>,
     <<"e", <<"3">> >>,
     <<"g", <<"6", "9">> >>,
     <<"i", <<"1", "!", "|">> >>,
     <<"l", <<"1", "|", "7">> >>,
     <<"o", <<"0">> >>,
     <<"s", <<"$", "5">> >>,
     <<"t", <<"+", "7">> >>,
     <<"x", <<"%">> >>,
     <<"z", <<"2">> >> >>

\* translate: a character that is a key of chr_map is replaced by its value
translate(string, chr_map) ==
  [k \in 1..Len(string) |->
     IF string[k] \in DOMAIN chr_map THEN chr_map[string[k]] ELSE string[k]]

\* relevant_l33t_subtable: letter -> the substitutes that occur in the password
relevant_l33t_subtable(pw, table) ==
  LET occurs(sub) == contains(pw, sub)
      relevant_subs(n) == SelectSeq(table[n][2], occurs)
      kept == {n \in DOMAIN table : relevant_subs(n) # <<>>}
  IN  [letter \in {table[n][1] : n \in kept} |->
         relevant_subs(CHOOSE n \in kept : table[n][1] = letter)]

\* dedup (lines 246-263): the first of every group of association lists with
\* the same sorted label, i.e. the same set of pairs, is kept
RECURSIVE dedup(_)
dedup(subs) ==
  IF subs = <<>> THEN <<>>
  ELSE LET init == dedup(SubSeq(subs, 1, Len(subs) - 1))
           sub == subs[Len(subs)]
           label(a) == {a[k] : k \in DOMAIN a}
       IN  IF \E n \in DOMAIN init : label(init[n]) = label(sub)
             THEN init ELSE Append(init, sub)

\* lines 269-286: what one (l33t_chr, sub) pair adds to next_subs
extend_sub(sub, l33t_chr, first_key) ==
  LET dup == {k \in DOMAIN sub : sub[k][1] = l33t_chr}
  IN  IF dup = {}
        THEN << Append(sub, <<l33t_chr, first_key>>) >>
        ELSE LET it == CHOOSE k \in dup : \A l \in dup : k <= l
                 erased == SubSeq(sub, 1, it - 1) \o SubSeq(sub, it + 1, Len(sub))
             IN  << sub, Append(erased, <<l33t_chr, first_key>>) >>

RECURSIVE extend_all(_, _, _, _)
extend_all(subs, n, l33t_chr, first_key) ==
  IF n > Len(subs) THEN <<>>
  ELSE extend_sub(subs[n], l33t_chr, first_key)
       \o extend_all(subs, n + 1, l33t_chr, first_key)

RECURSIVE next_subs(_, _, _)
next_subs(subs, chrs, first_key) ==
  IF chrs = <<>> THEN <<>>
  ELSE extend_all(subs, 1, Head(chrs), first_key) \o next_subs(subs, Tail(chrs), first_key)

RECURSIVE enumerate_from(_, _, _)
enumerate_from(table, keys, subs) ==
  IF keys = <<>> THEN subs
  ELSE enumerate_from(table, Tail(keys),
                      dedup(next_subs(subs, table[Head(keys)], Head(keys))))

assoc_to_dict(sub) ==
  [c \in {sub[k][1] : k \in DOMAIN sub} |->
     sub[CHOOSE k \in DOMAIN sub : sub[k][1] = c][2]]

\* enumerate_l33t_subs, for one iteration order (keys) of the unordered_map
\* table: the list of substitution maps, each a function l33t_chr -> letter
enumerate_l33t_subs(table, keys) ==
  LET subs == enumerate_from(table, keys, << <<>> >>)
  IN  [n \in DOMAIN subs |-> assoc_to_dict(subs[n])]

\* lines 326-334: "<chr> -> <letter>" joined by ", " in the map's iteration
\* order, which is a fixed order the build decides
RECURSIVE sub_display(_, _)
sub_display(match_sub, order) ==
  IF order = <<>> THEN <<>>
  ELSE LET item == <<Head(order), " ", "-", ">", " ", match_sub[Head(order)]>>
       IN  IF Len(order) = 1 THEN item
           ELSE item \o <<",", " ">> \o sub_display(match_sub, Tail(order))

\* lines 310-335 for one match of the substituted password: the match with
\* its l33t fields, or nothing when the token holds no substitution
l33t_annotate(pw, sub, match) ==
  LET token == substr(pw, match.i, match.j - match.i + 1)
      match_sub == [c \in {c \in DOMAIN sub : contains(token, c)} |-> sub[c]]
      order == CHOOSE o \in Arrangements(DOMAIN match_sub) : TRUE
  IN  IF ascii_lower(token) = match.payload.matched_word THEN <<>>
      ELSE << [match EXCEPT !.token = token,
                            !.payload.l33t = TRUE,
                            !.payload.sub = match_sub,
                            !.payload.sub_display = sub_display(match_sub, order)] >>

RECURSIVE l33t_annotate_all(_, _, _, _)
l33t_annotate_all(pw, sub, found, n) ==
  IF n > Len(found) THEN <<>>
  ELSE l33t_annotate(pw, sub, found[n]) \o l33t_annotate_all(pw, sub, found, n + 1)

\* the loop of lines 306-337 from the n-th substitution map on
RECURSIVE l33t_emitted(_, _, _, _)
l33t_emitted(pw, dicts, subs, n) ==
  IF n > Len(subs) THEN <<>>
  ELSE IF DOMAIN subs[n] = {} THEN <<>>
  ELSE l33t_annotate_all(pw, subs[n],
                         dictionary_emitted(translate(pw, subs[n]), dicts, TagOrder(dicts)), 1)
       \o l33t_emitted(pw, dicts, subs, n + 1)

\* a filter that removes empty tokens only
l33t_noise_empty(a) == Len(a.token) < 1

\* lines 339-346: single-character matches are noise
l33t_noise(a) == Len(a.token) <= 1

\* the set of vectors l33t_match may return.  The unordered_map table is
\* iterated in an order the build decides; every order yields the same set of
\* substitution maps, listed in another order, and the final sort leaves only
\* the order of matches with equal (i, j) open, so one order stands for all.
l33t_match(pw, dicts, l33t_table) ==
  LET table == relevant_l33t_subtable(pw, l33t_table)
      keys == CHOOSE order \in Arrangements(DOMAIN table) : TRUE
      subs == enumerate_l33t_subs(table, keys)
      kept(a) == ~l33t_noise(a)
  IN  sorted(SelectSeq(l33t_emitted(pw, dicts, subs, 1), kept))

(***************************************************************************)
(* repeat_match (lines 460-524).  The three patterns are evaluated as the  *)
(* backtracking matcher of std::regex evaluates them: regex_search takes   *)
(* the leftmost start that matches; at a start, (.+) tries the longest     *)
(* capture first and (.+?) the shortest, and \1+ takes as many copies of   *)
(* the capture as follow.                                                  *)
(***************************************************************************)
\* the copies a pattern with \1 in place of \1+ takes: one at most
copies_at_most_one(s, pos, cap) ==
  IF pos + Len(cap) <= Len(s) /\ substr(s, pos, Len(cap)) = cap THEN 1 ELSE 0

\* the number of consecutive copies of cap in s from 0-based pos on
RECURSIVE copies_at(_, _, _)
copies_at(s, pos, cap) ==
  IF pos + Len(cap) <= Len(s) /\ substr(s, pos, Len(cap)) = cap
    THEN 1 + copies_at(s, pos + Len(cap), cap)
    ELSE 0

\* the capture lengths with which (.+)\1+ or (.+?)\1+ matches at start
capture_lengths(s, start) ==
  {L \in 1..(Len(s) - start) : copies_at(s, start + L, substr(s, start, L)) >= 1}

rx_result(s, start, L) ==
  LET cap == substr(s, start, L)
  IN  [position |-> start, length |-> L * (1 + copies_at(s, start + L, cap)), cap |-> cap]

\* std::regex_search(s, (.+)\1+) and (.+?)\1+: <<>> or the one match
regex_search_repeat(s, is_greedy) ==
  LET starts == {st \in 0..(Len(s) - 1) : capture_lengths(s, st) # {}}
  IN  IF starts = {} THEN <<>>
      ELSE LET st == CHOOSE a \in starts : \A b \in starts : a <= b
               Ls == capture_lengths(s, st)
               L  == IF is_greedy THEN CHOOSE a \in Ls : \A b \in Ls : a >= b
                                  ELSE CHOOSE a \in Ls : \A b \in Ls : a <= b
           IN  << rx_result(s, st, L) >>

\* ^(.+?)\1\1+$ in place of ^(.+?)\1+$: three copies of the prefix at least
regex_search_lazy_anchored_thrice(s) ==
  LET Ls == {L \in 1..Len(s) :
               /\ copies_at(s, L, substr(s, 0, L)) >= 2
               /\ L * (1 + copies_at(s, L, substr(s, 0, L))) = Len(s)}
  IN  IF Ls = {} THEN <<>>
      ELSE << rx_result(s, 0, CHOOSE a \in Ls : \A b \in Ls : a <= b) >>

\* ^(.+)\1+$ in place of ^(.+?)\1+$: the longest prefix whose copies end
\* exactly at the end of s
regex_search_greedy_anchored(s) ==
  LET Ls == {L \in 1..Len(s) :
               /\ copies_at(s, L, substr(s, 0, L)) >= 1
               /\ L * (1 + copies_at(s, L, substr(s, 0, L))) = Len(s)}
  IN  IF Ls = {} THEN <<>>
      ELSE << rx_result(s, 0, CHOOSE a \in Ls : \A b \in Ls : a >= b) >>

\* std::regex_search(s, ^(.+?)\1+$): the shortest prefix whose copies end
\* exactly at the end of s
regex_search_lazy_anchored(s) ==
  LET Ls == {L \in 1..Len(s) :
               /\ copies_at(s, L, substr(s, 0, L)) >= 1
               /\ L * (1 + copies_at(s, L, substr(s, 0, L))) = Len(s)}
  IN  IF Ls = {} THEN <<>>
      ELSE << rx_result(s, 0, CHOOSE a \in Ls : \A b \in Ls : a <= b) >>

RepeatMatch(base_token, repeat_count) ==
  [base_token |-> base_token, repeat_count |-> repeat_count]

\* lines 476-500: the winning match and its base token; assert_ok is the
\* assert of line 490
repeat_choice(greedy_match, lazy_match) ==
  IF greedy_match.length > lazy_match.length
    THEN LET anchored == regex_search_lazy_anchored(greedy_match.text)
         IN  [match |-> greedy_match,
              base_token |-> IF anchored = <<>> THEN <<>> ELSE anchored[1].cap,
              assert_ok |-> anchored # <<>>]
    ELSE [match |-> lazy_match, base_token |-> lazy_match.cap, assert_ok |-> TRUE]

\* the loop of lines 468-522 from lastIndex on.  The nested omnimatch and the
\* scoring of the base token (lines 504-513) fill base_matches and
\* base_guesses only; they are the scoring engine's and are not kept here.
RECURSIVE repeat_loop(_, _)
repeat_loop(pw, lastIndex) ==
  IF lastIndex >= Len(pw) THEN [matches |-> <<>>, assert_ok |-> TRUE]
  ELSE
    LET rest == SubSeq(pw, lastIndex + 1, Len(pw))
        with_text(r) == [position |-> r.position, length |-> r.length, cap |-> r.cap,
                         text |-> substr(rest, r.position, r.length)]
        greedy == regex_search_repeat(rest, TRUE)
        lazy == regex_search_repeat(rest, FALSE)
    IN  IF greedy = <<>> THEN [matches |-> <<>>, assert_ok |-> TRUE]
        ELSE
          LET choice == repeat_choice(with_text(greedy[1]), with_text(lazy[1]))
              i == lastIndex + choice.match.position
              j == lastIndex + choice.match.position + choice.match.length - 1
          IN  IF ~choice.assert_ok THEN [matches |-> <<>>, assert_ok |-> FALSE]
              ELSE LET tail == repeat_loop(pw, j + 1)
                   IN  [matches |->
                          << Match(i, j, choice.match.text, "repeat",
                                   RepeatMatch(choice.base_token,
                                               choice.match.length \div Len(choice.base_token))) >>
                          \o tail.matches,
                        assert_ok |-> tail.assert_ok]

repeat_match(pw) == repeat_loop(pw, 0)

\* one pass of the loop of lines 468-522 up to line 503: <<>> when the loop
\* ends (line 468 or the break of line 475), or the match found, its base
\* token and the outcome of the assert
repeat_pass(pw, lastIndex) ==
  IF lastIndex >= Len(pw) THEN <<>>
  ELSE
    LET rest == SubSeq(pw, lastIndex + 1, Len(pw))
        with_text(r) == [position |-> r.position, length |-> r.length, cap |-> r.cap,
                         text |-> substr(rest, r.position, r.length)]
        greedy == regex_search_repeat(rest, TRUE)
        lazy == regex_search_repeat(rest, FALSE)
    IN  IF greedy = <<>> THEN <<>>
        ELSE LET choice == repeat_choice(with_text(greedy[1]), with_text(lazy[1]))
             IN  << [i |-> lastIndex + choice.match.position,
                     j |-> lastIndex + choice.match.position + choice.match.length - 1,
                     token |-> choice.match.text,
                     base_token |-> choice.base_token,
                     assert_ok |-> choice.assert_ok] >>

\* the nested omnimatch on the whole token
nested_argument_token(pass) == pass.token

\* line 504: the password of the nested omnimatch
nested_argument(pass) == pass.base_token

(***************************************************************************)
(* sequence_match (lines 526-596)                                          *)
(***************************************************************************)
MAX_DELTA == 5

\* ^[a-z]+$, ^[A-Z]+$ and ^\d+$
AllLower(token) == token # <<>> /\ \A k \in DOMAIN token : IsLower(token[k])

AllUpper(token) == token # <<>> /\ \A k \in DOMAIN token : IsUpper(token[k])

AllDigits(token) == token # <<>> /\ \A k \in DOMAIN token : IsDigit(token[k])

SequenceMatch(sequence_name, sequence_space, ascending) ==
  [sequence_name |-> sequence_name, sequence_space |-> sequence_space,
   ascending |-> ascending]

\* the lambda without the bound MAX_DELTA
update_any_delta(pw, i, j, delta) ==
  IF (j - i > 1 \/ Abs(delta) = 1) /\ 0 < Abs(delta)
    THEN LET token == substr(pw, i, j - i + 1)
             class == IF AllLower(token) THEN <<"LOWER", 26>>
                      ELSE IF AllUpper(token) THEN <<"UPPER", 26>>
                      ELSE IF AllDigits(token) THEN <<"DIGITS", 10>>
                      ELSE <<"UNICODE", 26>>
         IN  << Match(i, j, token, "sequence",
                      SequenceMatch(class[1], class[2], delta > 0)) >>
    ELSE <<>>

\* the lambda update (lines 548-576): the match it pushes, if any
update(pw, i, j, delta) ==
  IF (j - i > 1 \/ Abs(delta) = 1) /\ 0 < Abs(delta) /\ Abs(delta) <= MAX_DELTA
    THEN LET token == substr(pw, i, j - i + 1)
             class == IF AllLower(token) THEN <<"LOWER", 26>>
                      ELSE IF AllUpper(token) THEN <<"UPPER", 26>>
                      ELSE IF AllDigits(token) THEN <<"DIGITS", 10>>
                      ELSE <<"UNICODE", 26>>
         IN  << Match(i, j, token, "sequence",
                      SequenceMatch(class[1], class[2], delta > 0)) >>
    ELSE <<>>

\* the loop of lines 580-594 from k on; maybe_last_delta is <<>> or <<delta>>
RECURSIVE sequence_loop(_, _, _, _)
sequence_loop(pw, k, i, maybe_last_delta) ==
  IF k >= Len(pw)
    THEN IF maybe_last_delta # <<>>
           THEN update(pw, i, Len(pw) - 1, maybe_last_delta[1])
           ELSE <<>>
    ELSE LET delta == Ord(pw[k + 1]) - Ord(pw[k])
             last == IF maybe_last_delta = <<>> THEN delta ELSE maybe_last_delta[1]
         IN  IF delta = last THEN sequence_loop(pw, k + 1, i, <<last>>)
             ELSE update(pw, i, k - 1, last) \o sequence_loop(pw, k + 1, k - 1, <<delta>>)

sequence_match(pw) ==
  IF Len(pw) = 1 THEN <<>> ELSE sequence_loop(pw, 1, 0, <<>>)

(***************************************************************************)
(* regex_match (lines 41-43, 603-623)                                      *)
(***************************************************************************)
\* std::regex_match with 19\d\d|200\d|201\d: the whole of s is one year
recent_year_rx(s) ==
  /\ Len(s) = 4
  /\ \/ s[1] = "1" /\ s[2] = "9" /\ IsDigit(s[3]) /\ IsDigit(s[4])
     \/ s[1] = "2" /\ s[2] = "0" /\ s[3] = "0" /\ IsDigit(s[4])
     \/ s[1] = "2" /\ s[2] = "0" /\ s[3] = "1" /\ IsDigit(s[4])

REGEXEN == << "RECENT_YEAR" >>

RegexMatch(tag, groups) == [regex_tag |-> tag, regex_match |-> groups]

\* the while loop of lines 612-620: regex_match must match all of
\* [lastIndex, end), and position() counts from lastIndex
RECURSIVE regex_loop(_, _, _)
regex_loop(pw, tag, lastIndex) ==
  LET rest == SubSeq(pw, lastIndex + 1, Len(pw))
      position == 0
  IN  IF recent_year_rx(rest)
        THEN << Match(position, position + Len(rest) - 1, rest, "regex",
                      RegexMatch(tag, <<rest>>)) >>
             \o regex_loop(pw, tag, lastIndex + Len(rest))
        ELSE <<>>

RECURSIVE regex_emitted(_, _)
regex_emitted(pw, regexen) ==
  IF regexen = <<>> THEN <<>>
  ELSE regex_loop(pw, Head(regexen), 0) \o regex_emitted(pw, Tail(regexen))

\* the set of vectors regex_match may return
regex_match(pw, regexen) == sorted(regex_emitted(pw, regexen))

(***************************************************************************)
(* date_match (lines 45-71, 629-846)                                       *)
(***************************************************************************)
DATE_MAX_YEAR == 2050

DATE_MIN_YEAR == 1000

\* scoring.REFERENCE_YEAR, "a year closest to 2000" (lines 685-686)
REFERENCE_YEAR == 2000

DATE_SPLITS ==
  << << <<1, 2>>, <<2, 3>> >>,
     << <<1, 3>>, <<2, 3>> >>,
     << <<1, 2>>, <<2, 4>>, <<4, 5>> >>,
     << <<1, 3>>, <<2, 3>>, <<4, 5>>, <<4, 6>> >>,
     << <<2, 4>>, <<4, 6>> >> >>

\* stou: the decimal value of a string of digits
RECURSIVE stou(_)
stou(a) ==
  IF a = <<>> THEN 0
  ELSE 10 * stou(SubSeq(a, 1, Len(a) - 1)) + (Ord(a[Len(a)]) - 48)

DMY(year, month, day) == [year |-> year, month |-> month, day |-> day]

\* map_ints_to_dm (lines 822-831): <<>> or <<DMY>>
map_ints_to_dm(vals) ==
  IF 1 <= vals[1] /\ vals[1] <= 31 /\ 1 <= vals[2] /\ vals[2] <= 12
    THEN << DMY(0, vals[2], vals[1]) >>
  ELSE IF 1 <= vals[2] /\ vals[2] <= 31 /\ 1 <= vals[1] /\ vals[1] <= 12
    THEN << DMY(0, vals[1], vals[2]) >>
  ELSE <<>>

\* an expansion that puts every two-digit year in this century
two_to_four_digit_year_2000(year) ==
  IF year > 99 THEN year ELSE year + 2000

\* two_to_four_digit_year (lines 833-846)
two_to_four_digit_year(year) ==
  IF year > 99 THEN year
  ELSE IF year > 50 THEN year + 1900
  ELSE year + 2000

\* map_ints_to_dmy (lines 763-820): <<>> or <<DMY>>
map_ints_to_dmy(vals) ==
  LET rejected(val) == (99 < val /\ val < DATE_MIN_YEAR) \/ val > DATE_MAX_YEAR
      over_31 == Cardinality({n \in 1..3 : vals[n] > 31})
      over_12 == Cardinality({n \in 1..3 : vals[n] > 12})
      under_1 == Cardinality({n \in 1..3 : vals[n] <= 0})
      possible_year_splits == << <<vals[3], <<vals[1], vals[2]>> >>,
                                 <<vals[1], <<vals[2], vals[3]>> >> >>
      four_digit(n) == DATE_MIN_YEAR <= possible_year_splits[n][1]
                       /\ possible_year_splits[n][1] <= DATE_MAX_YEAR
      with_year(n, y) ==
        LET dm == map_ints_to_dm(possible_year_splits[n][2])
        IN  IF dm = <<>> THEN <<>> ELSE << DMY(y, dm[1].month, dm[1].day) >>
      two_digit(n) ==
        with_year(n, two_to_four_digit_year(possible_year_splits[n][1]))
  IN  IF vals[2] > 31 \/ vals[2] = 0 THEN <<>>
      ELSE IF \E n \in 1..3 : rejected(vals[n]) THEN <<>>
      ELSE IF over_31 >= 2 \/ over_12 = 3 \/ under_1 >= 2 THEN <<>>
      ELSE IF four_digit(1) THEN with_year(1, possible_year_splits[1][1])
      ELSE IF four_digit(2) THEN with_year(2, possible_year_splits[2][1])
      ELSE IF two_digit(1) # <<>> THEN two_digit(1)
      ELSE two_digit(2)

DateMatch(separator, year, month, day) ==
  [separator |-> separator, year |-> year, month |-> month, day |-> day,
   has_full_year |-> FALSE]

\* a metric that is the signed distance to the reference year
metric_signed(candidate) == candidate.year - REFERENCE_YEAR

\* the lambda metric (lines 690-697)
metric(candidate) ==
  IF candidate.year >= REFERENCE_YEAR THEN candidate.year - REFERENCE_YEAR
  ELSE REFERENCE_YEAR - candidate.year

\* std::min_element by metric: the first candidate that no candidate beats
best_candidate(candidates) ==
  candidates[CHOOSE n \in DOMAIN candidates :
               /\ \A l \in DOMAIN candidates : ~(metric(candidates[l]) < metric(candidates[n]))
               /\ \A l \in 1..(n - 1) : metric(candidates[l]) > metric(candidates[n])]

\* lines 673-682: the splits of the token that map to a date, in split order
RECURSIVE date_candidates(_, _)
date_candidates(token, splits) ==
  IF splits = <<>> THEN <<>>
  ELSE LET k == Head(splits)[1]
           l == Head(splits)[2]
       IN  map_ints_to_dmy(<< stou(substr(token, 0, k)),
                              stou(substr(token, k, l - k)),
                              stou(substr(token, l, Len(token))) >>)
           \o date_candidates(token, Tail(splits))

\* the body of the loops of lines 668-710 for one (i, j)
date_no_separator(pw, i, j) ==
  LET token == substr(pw, i, j - i + 1)
      candidates == date_candidates(token, DATE_SPLITS[Len(token) - 3])
  IN  IF ~AllDigits(token) THEN <<>>
      ELSE IF candidates = <<>> THEN <<>>
      ELSE LET best == best_candidate(candidates)
           IN  << Match(i, j, token, "date",
                        DateMatch(<<>>, best.year, best.month, best.day)) >>

IsSeparator(c) == c \in {" ", "/", "\\", "_", ".", "-"}

\* std::regex_match with ^(\d{1,4})([\s/\\_.-])(\d{1,2})\2(\d{1,4})$: <<>> or
\* the four groups.  A separator is no digit, so a token has one parse at most.
maybe_date_with_separator(token) ==
  LET parses == {p \in (1..4) \X (1..2) \X (1..4) :
                   /\ p[1] + p[2] + p[3] + 2 = Len(token)
                   /\ AllDigits(substr(token, 0, p[1]))
                   /\ IsSeparator(token[p[1] + 1])
                   /\ AllDigits(substr(token, p[1] + 1, p[2]))
                   /\ token[p[1] + p[2] + 2] = token[p[1] + 1]
                   /\ AllDigits(substr(token, p[1] + p[2] + 2, p[3]))}
  IN  IF parses = {} THEN <<>>
      ELSE LET p == CHOOSE q \in parses : TRUE
           IN  << << substr(token, 0, p[1]), <<token[p[1] + 1]>>,
                     substr(token, p[1] + 1, p[2]),
                     substr(token, p[1] + p[2] + 2, p[3]) >> >>

\* the body of the loops of lines 713-734 for one (i, j)
date_with_separator(pw, i, j) ==
  LET token == substr(pw, i, j - i + 1)
      rx_match == maybe_date_with_separator(token)
      dmy == map_ints_to_dmy(<< stou(rx_match[1][1]), stou(rx_match[1][3]),
                                stou(rx_match[1][4]) >>)
  IN  IF rx_match = <<>> THEN <<>>
      ELSE IF dmy = <<>> THEN <<>>
      ELSE << Match(i, j, token, "date",
                    DateMatch(rx_match[1][2], dmy[1].year, dmy[1].month, dmy[1].day)) >>

\* the inner loop of lines 669-709 (no separator) and 714-733 (with
\* separator) for one i, from j on: up to i + max_len - 1, stopping at the end
\* of the password
RECURSIVE date_row(_, _, _, _, _)
date_row(pw, with_separator, max_len, i, j) ==
  IF j > i + max_len - 1 \/ j >= Len(pw) THEN <<>>
  ELSE (IF with_separator THEN date_with_separator(pw, i, j)
        ELSE date_no_separator(pw, i, j))
       \o date_row(pw, with_separator, max_len, i, j + 1)

\* the outer loop of lines 668-710 and 713-734, from i on
RECURSIVE date_loops(_, _, _, _, _)
date_loops(pw, with_separator, min_len, max_len, i) ==
  IF i + min_len > Len(pw) THEN <<>>
  ELSE date_row(pw, with_separator, max_len, i, i + min_len - 1)
       \o date_loops(pw, with_separator, min_len, max_len, i + 1)

\* the vector matches before line 743
date_found(pw) ==
  date_loops(pw, FALSE, 4, 8, 0) \o date_loops(pw, TRUE, 6, 10, 0)

\* a predicate that spares the matches sharing an end with the other match
is_submatch_inside(ms, match) ==
  \E n \in DOMAIN ms : ms[n].i < match.i /\ ms[n].j > match.j

\* the predicate of lines 743-750, which reads the vector that remove_if is
\* compacting
is_submatch(ms, match) ==
  \E n \in DOMAIN ms :
    /\ ~(ms[n].i = match.i /\ ms[n].j = match.j)
    /\ ms[n].i <= match.i /\ ms[n].j >= match.j

\* what a move leaves behind: i and j are integers and are copied, the token
\* has been moved out
moved_from(match) == [match EXCEPT !.token = <<>>]

\* std::remove_if: the elements to keep are moved to the front one by one, the
\* predicate seeing the vector as it is at that moment; the value is the
\* vector after erase.  first is the scan position, out the write position.
RECURSIVE remove_if_submatch(_, _, _)
remove_if_submatch(ms, first, out) ==
  IF first > Len(ms) THEN SubSeq(ms, 1, out - 1)
  ELSE IF is_submatch(ms, ms[first]) THEN remove_if_submatch(ms, first + 1, out)
  ELSE IF first = out THEN remove_if_submatch(ms, first + 1, out + 1)
  ELSE remove_if_submatch([ms EXCEPT ![out] = ms[first],
                                     ![first] = moved_from(ms[first])],
                          first + 1, out + 1)

\* the set of vectors date_match may return
date_match(pw) == sorted(remove_if_submatch(date_found(pw), 1, 1))

(***************************************************************************)
(* spatial_match (lines 355-454).  graphs() is the graph provider; the     *)
(* model has the qwerty and the keypad graph, built from the key layout:   *)
(* every character of a key maps to the keys around it, one per direction, *)
(* <<>> where there is none.                                               *)
(***************************************************************************)
key_row(y, x0, keys) == {[x |-> x0 + n - 1, y |-> y, key |-> keys[n]] : n \in DOMAIN keys}

QwertyLayout ==
  key_row(0, 0, << <<"GRAVE", "~">>, <<"1", "!">>, <<"2", "@">>, <<"3", "#">>, <<"4", "$">>,
                   <<"5", "%">>, <<"6", "^">>, <<"7", "&">>, <<"8", "*">>, <<"9", "(">>,
                   <<"0", ")">>, <<"-", "_">>, <<"=", "+">> >>)
  \cup key_row(1, 1, << <<"q", "Q">>, <<"w", "W">>, <<"e", "E">>, <<"r", "R">>, <<"t", "T">>,
                        <<"y", "Y">>, <<"u", "U">>, <<"i", "I">>, <<"o", "O">>, <<"p", "P">>,
                        <<"[", "{">>, <<"]", "}">>, <<"\\", "|">> >>)
  \cup key_row(2, 1, << <<"a", "A">>, <<"s", "S">>, <<"d", "D">>, <<"f", "F">>, <<"g", "G">>,
                        <<"h", "H">>, <<"j", "J">>, <<"k", "K">>, <<"l", "L">>, <<";", ":">>,
                        <<"'", "\"">> >>)
  \cup key_row(3, 1, << <<"z", "Z">>, <<"x", "X">>, <<"c", "C">>, <<"v", "V">>, <<"b", "B">>,
                        <<"n", "N">>, <<"m", "M">>, <<",", "<">>, <<".", ">">>, <<"/", "?">> >>)

KeypadLayout ==
  key_row(0, 1, << <<"/">>, <<"*">>, <<"-">> >>)
  \cup key_row(1, 0, << <<"7">>, <<"8">>, <<"9">>, <<"+">> >>)
  \cup key_row(2, 0, << <<"4">>, <<"5">>, <<"6">> >>)
  \cup key_row(3, 0, << <<"1">>, <<"2">>, <<"3">> >>)
  \cup key_row(4, 1, << <<"0">>, <<".">> >>)

SlantedDirections == << <<-1, 0>>, <<0, -1>>, <<1, -1>>, <<1, 0>>, <<0, 1>>, <<-1, 1>> >>

AlignedDirections ==
  << <<-1, 0>>, <<-1, -1>>, <<0, -1>>, <<1, -1>>, <<1, 0>>, <<1, 1>>, <<0, 1>>, <<-1, 1>> >>

key_at(layout, x, y) ==
  IF \E k \in layout : k.x = x /\ k.y = y
    THEN (CHOOSE k \in layout : k.x = x /\ k.y = y).key
    ELSE <<>>

\* the keys around the key at (x, y), for the directions from d on
RECURSIVE around(_, _, _, _, _)
around(layout, directions, x, y, d) ==
  IF d > Len(directions) THEN <<>>
  ELSE << key_at(layout, x + directions[d][1], y + directions[d][2]) >>
       \o around(layout, directions, x, y, d + 1)

RECURSIVE graph_of(_, _, _)
graph_of(layout, directions, keys) ==
  IF keys = {} THEN <<>>
  ELSE LET k == CHOOSE x \in keys : TRUE
           adjacents == around(layout, directions, k.x, k.y, 1)
       IN  [c \in {k.key[n] : n \in DOMAIN k.key} |-> adjacents]
           @@ graph_of(layout, directions, keys \ {k})

build_graph(layout, directions) == graph_of(layout, directions, layout)

graphs ==
  [tag \in {"QWERTY", "KEYPAD"} |->
     IF tag = "QWERTY" THEN build_graph(QwertyLayout, SlantedDirections)
     ELSE build_graph(KeypadLayout, AlignedDirections)]

SHIFTED_RX(c) ==
  c \in {"~", "!", "@", "#", "$", "%", "^", "&", "*", "(", ")", "_", "+",
         "Q", "W", "E", "R", "T", "Y", "U", "I", "O", "P", "{", "}", "|",
         "A", "S", "D", "F", "G", "H", "J", "K", "L", ":", "\"",
         "Z", "X", "C", "V", "B", "N", "M", "<", ">", "?"}

SpatialMatch(graph_tag, turns, shifted_count) ==
  [graph_tag |-> graph_tag, turns |-> turns, shifted_count |-> shifted_count]

\* i < password.length() - 1 in idx_t (line 381): the length is unsigned, so
\* for an empty password length - 1 is the greatest idx_t
below_length_minus_1(pw, i) == Len(pw) = 0 \/ i < Len(pw) - 1

\* the inner while (true) of lines 395-451 from j on: the j, turns and
\* shifted_count at which the run starting at i breaks
RECURSIVE spatial_run(_, _, _, _, _, _)
spatial_run(pw, graph, j, last_direction, turns, shifted_count) ==
  LET prev_char == substr(pw, j - 1, 1)
      adjacents == IF prev_char # <<>> /\ prev_char[1] \in DOMAIN graph
                     THEN graph[prev_char[1]] ELSE <<>>
      cur_char == pw[j + 1]
      hits == IF j < Len(pw)
                THEN {d \in DOMAIN adjacents :
                        adjacents[d] # <<>> /\ contains(adjacents[d], cur_char)}
                ELSE {}
      hit == CHOOSE d \in hits : \A e \in hits : d <= e
      found_direction == hit - 1
      is_shifted == Len(adjacents[hit]) >= 2 /\ adjacents[hit][1] # cur_char
                    /\ adjacents[hit][2] = cur_char
  IN  IF hits # {}
        THEN spatial_run(pw, graph, j + 1, found_direction,
                         IF last_direction # found_direction THEN turns + 1 ELSE turns,
                         IF is_shifted THEN shifted_count + 1 ELSE shifted_count)
        ELSE [j |-> j, turns |-> turns, shifted_count |-> shifted_count]

\* the outer loop pushing the chains of two characters as well
RECURSIVE spatial_loop_pairs(_, _, _, _)
spatial_loop_pairs(pw, graph, graph_tag, i) ==
  IF ~below_length_minus_1(pw, i) THEN [matches |-> <<>>, out_of_range |-> FALSE]
  ELSE IF i > Len(pw) THEN [matches |-> <<>>, out_of_range |-> TRUE]
  ELSE LET first_char == substr(pw, i, 1)
           first_shifted == /\ graph_tag \in {"QWERTY", "DVORAK"}
                            /\ first_char # <<>> /\ SHIFTED_RX(first_char[1])
           run == spatial_run(pw, graph, i + 1, -1, 0, IF first_shifted THEN 1 ELSE 0)
           tail == spatial_loop_pairs(pw, graph, graph_tag, run.j)
       IN  [matches |->
              (IF run.j - i > 1
                 THEN << Match(i, run.j - 1, substr(pw, i, run.j - i), "spatial",
                               SpatialMatch(graph_tag, run.turns, run.shifted_count)) >>
                 ELSE <<>>)
              \o tail.matches,
            out_of_range |-> tail.out_of_range]

\* the outer loop of lines 381-452 from i on.  password.substr(i, 1) is empty
\* for i = length and throws std::out_of_range for i > length, which ends the
\* program; out_of_range tells whether it did
RECURSIVE spatial_loop(_, _, _, _)
spatial_loop(pw, graph, graph_tag, i) ==
  IF ~below_length_minus_1(pw, i) THEN [matches |-> <<>>, out_of_range |-> FALSE]
  ELSE IF i > Len(pw) THEN [matches |-> <<>>, out_of_range |-> TRUE]
  ELSE LET first_char == substr(pw, i, 1)
           first_shifted == /\ graph_tag \in {"QWERTY", "DVORAK"}
                            /\ first_char # <<>> /\ SHIFTED_RX(first_char[1])
           run == spatial_run(pw, graph, i + 1, -1, 0, IF first_shifted THEN 1 ELSE 0)
           tail == spatial_loop(pw, graph, graph_tag, run.j)
       IN  [matches |->
              (IF run.j - i > 2
                 THEN << Match(i, run.j - 1, substr(pw, i, run.j - i), "spatial",
                               SpatialMatch(graph_tag, run.turns, run.shifted_count)) >>
                 ELSE <<>>)
              \o tail.matches,
            out_of_range |-> tail.out_of_range]

\* the helper without the return of line 377
spatial_match_helper_unguarded(pw, graph, graph_tag) ==
  spatial_loop(pw, graph, graph_tag, 0)

spatial_match_helper(pw, graph, graph_tag) ==
  IF Len(pw) = 0 THEN [matches |-> <<>>, out_of_range |-> FALSE]
  ELSE spatial_loop(pw, graph, graph_tag, 0)

\* spatial_match for one iteration order (tags) of the unordered_map graphs
RECURSIVE spatial_match(_, _, _)
spatial_match(pw, gs, tags) ==
  IF tags = <<>> THEN [matches |-> <<>>, out_of_range |-> FALSE]
  ELSE LET head == spatial_match_helper(pw, gs[Head(tags)], Head(tags))
           tail == spatial_match(pw, gs, Tail(tags))
       IN  IF head.out_of_range THEN head
           ELSE [matches |-> head.matches \o tail.matches,
                 out_of_range |-> tail.out_of_range]

(***************************************************************************)
(* The arguments of a call.                                                *)
(***************************************************************************)
MaxLen == 3

SmallAlphabet == {"a", "b", "c", "B", "4", "1"}

RECURSIVE Strings(_, _)
Strings(alphabet, n) ==
  IF n = 0 THEN {<<>>}
  ELSE LET shorter == Strings(alphabet, n - 1)
       IN  shorter \cup {Append(s, c) : s \in {t \in shorter : Len(t) = n - 1}, c \in alphabet}

Examples ==
  { <<"1", "1", "9", "1">>,
    <<"2", "0", "1", "5", "_", "0", "6", "_", "0", "4">>,
    <<"a", "b", "c", "a", "b", "c", "a", "b", "c">>,
    <<"a", "a", "b", "a", "a", "b", "a", "a", "b", "a", "a", "b">>,
    <<"a", "b", "c", "d", "b", "9", "7", "5", "z", "y">>,
    <<"p", "4", "s", "s", "w", "o", "r", "d">>,
    <<"p", "a", "s", "s", "w", "o", "r", "d", "1", "2", "3">>,
    <<"q", "w", "e", "r", "t", "y">>,
    <<"t", "a", "c">>,
    <<"1", "9", "9", "9">>,
    <<"a", "1", "9", "9", "9">>,
    <<"2", "0", "1", "9", "b">>,
    <<"1", "9", "9", "9", "2", "0", "0", "0">>,
    <<"2", "0", "2", "0">>,
    <<"1", "2", "3", "4">>,
    <<"a", "e", "i">>,
    <<"a", "f", "k">>,
    <<"a", "g", "m">>,
    <<"a", "c">>,
    <<"4", "1">>,
    <<"a", "a", "b", "a", "a", "b">> }

UserLists == { <<>>, << <<"B", "a">>, <<"a">> >> }

\* the calls: every short password with every user list, the examples with
\* the empty list
Calls == (Strings(SmallAlphabet, MaxLen) \X UserLists) \cup (Examples \X {<<>>})

(***************************************************************************)
(* omnimatch (lines 132-160), one action per step.  pc is the index of the *)
(* matcher the loop of line 155 runs next: 0 before the dictionaries are   *)
(* built, 9 when the loop is over, 10 after the return.                    *)
(***************************************************************************)
Init ==
  /\ \E call \in Calls : password = call[1] /\ ordered_list = call[2]
  /\ ranked_dictionaries = <<>>
  /\ pc = 0
  /\ ret = <<>>
  /\ matches = <<>>
  /\ result = <<>>
  /\ stack = <<>>
  /\ repeat_locals = <<>>

\* lines 134-140
Start ==
  /\ pc = 0
  /\ ranked_dictionaries' =
       default_ranked_dicts @@ ("USER_INPUTS" :> build_ranked_dict(ordered_list))
  /\ pc' = 1
  /\ UNCHANGED <<password, ordered_list, ret, matches, result, stack, repeat_locals>>

\* lines 156-157 for a matcher whose return value is r
Run(r) ==
  /\ ret' = r
  /\ matches' = matches \o r
  /\ pc' = pc + 1
  /\ UNCHANGED <<password, ordered_list, ranked_dictionaries, result, stack, repeat_locals>>

DictionaryMatcher ==
  /\ pc = 1
  /\ \E r \in dictionary_match(password, ranked_dictionaries) : Run(r)

ReverseDictionaryMatcher ==
  /\ pc = 2
  /\ \E r \in reverse_dictionary_match(password, ranked_dictionaries) : Run(r)

L33tMatcher ==
  /\ pc = 3
  /\ \E r \in l33t_match(password, ranked_dictionaries, L33T_TABLE) : Run(r)

\* an exception that nothing catches ends the program
SpatialMatcher ==
  /\ pc = 4
  /\ \E tags \in Arrangements(DOMAIN graphs) :
       LET r == spatial_match(password, graphs, tags)
       IN  IF ~r.out_of_range THEN Run(r.matches)
           ELSE /\ pc' = -1
                /\ UNCHANGED <<password, ordered_list, ranked_dictionaries, ret, matches,
                               result, stack, repeat_locals>>

\* repeat_match in one step; a failed assert (line 490) ends the program
RepeatMatcher ==
  /\ pc = 5
  /\ repeat_locals = <<>>
  /\ LET r == repeat_match(password)
     IN  IF r.assert_ok THEN Run(r.matches)
         ELSE /\ pc' = -1
              /\ UNCHANGED <<password, ordered_list, ranked_dictionaries, ret, matches,
                             result, stack, repeat_locals>>

SequenceMatcher ==
  /\ pc = 6
  /\ Run(sequence_match(password))

RegexMatcher ==
  /\ pc = 7
  /\ \E r \in regex_match(password, REGEXEN) : Run(r)

DateMatcher ==
  /\ pc = 8
  /\ \E r \in date_match(password) : Run(r)

\* line 159
Return ==
  /\ pc = 9
  /\ \E r \in sorted(matches) : result' = r
  /\ pc' = 10
  /\ UNCHANGED <<password, ordered_list, ranked_dictionaries, ret, matches, stack,
                 repeat_locals>>

(***************************************************************************)
(* Calls for the date matcher: digit groups at the edges of the ranges    *)
(* map_ints_to_dmy tells apart (0, 1, 12/13, 31/32, 50/51, 99/100,        *)
(* 999/1000, 2050/2051), joined with and without separators.              *)
(***************************************************************************)
OuterGroups ==
  { <<"0">>, <<"1">>, <<"1", "2">>, <<"1", "3">>, <<"3", "1">>, <<"3", "2">>,
    <<"5", "0">>, <<"5", "1">>, <<"9", "9">>, <<"1", "0", "0">>, <<"9", "9", "9">>,
    <<"1", "0", "0", "0">>, <<"2", "0", "5", "0">>, <<"2", "0", "5", "1">> }

MiddleGroups ==
  { <<"0">>, <<"1">>, <<"1", "2">>, <<"1", "3">>, <<"3", "1">>, <<"3", "2">> }

DatePasswords ==
  { a \o <<"/">> \o b \o <<"/">> \o c : a \in OuterGroups, b \in MiddleGroups, c \in OuterGroups }
  \cup { s \in { a \o b \o c : a \in OuterGroups, b \in MiddleGroups, c \in OuterGroups } :
           Len(s) >= 4 /\ Len(s) <= 8 }
  \cup { <<"1", "1", "9", "1">>,
         <<"2", "0", "1", "5", "_", "0", "6", "_", "0", "4">>,
         <<"1", "1", "1", "5", "0", "4">>,
         <<"1", ".", "1", ".", "9", "1">>,
         <<"1", "-", "1", "/", "9", "1">>,
         <<"0", "2", " ", "0", "2", " ", "0", "2">>,
         <<"a", "1", "\\", "2", "\\", "0", "3", "b">> }

InitDate ==
  /\ password \in DatePasswords
  /\ ordered_list = <<>>
  /\ ranked_dictionaries = <<>>
  /\ pc = 0
  /\ ret = <<>>
  /\ matches = <<>>
  /\ result = <<>>
  /\ stack = <<>>
  /\ repeat_locals = <<>>

Next ==
  \/ Start
  \/ DictionaryMatcher
  \/ ReverseDictionaryMatcher
  \/ L33tMatcher
  \/ SpatialMatcher
  \/ RepeatMatcher
  \/ SequenceMatcher
  \/ RegexMatcher
  \/ DateMatcher
  \/ Return

Spec == Init /\ [][Next]_vars

SpecDate == InitDate /\ [][Next]_vars

\* passwords of keys that are neighbours on the keyboard or on the keypad,
\* some of them shifted
SpatialPieces ==
  { <<>>, <<"q", "w", "e">>, <<"q", "a">>, <<"W", "q">>, <<"2", "w">>, <<"@">>,
    <<"1", "4">>, <<"5", "2">>, <<"1">>, <<"a">>, <<"Z", "X">> }

SpatialPasswords ==
  { a \o b \o c : a \in SpatialPieces, b \in SpatialPieces, c \in SpatialPieces }
  \cup { <<"q", "w", "e", "r", "t", "y">>,
          <<"q", "w", "e", "d", "c">>,
          <<"Q", "W", "E", "R", "T", "Y">>,
          <<"1", "2", "3", "6", "9">> }

InitSpatial ==
  /\ password \in SpatialPasswords
  /\ ordered_list = <<>>
  /\ ranked_dictionaries = <<>>
  /\ pc = 0
  /\ ret = <<>>
  /\ matches = <<>>
  /\ result = <<>>
  /\ stack = <<>>
  /\ repeat_locals = <<>>

SpecSpatial == InitSpatial /\ [][Next]_vars

(***************************************************************************)
(* repeat_match step by step, with the nested omnimatch of line 504.  The  *)
(* nested call passes no word list, so ordered_list takes its default, the *)
(* empty list.  most_guessable_match_sequence (lines 505-509) is the       *)
(* scoring engine's; it takes the nested result and its outcome,           *)
(* base_guesses and base_matches, is not kept in the match.                *)
(***************************************************************************)
\* lines 462-466
RepeatEnter ==
  /\ pc = 5
  /\ repeat_locals = <<>>
  /\ repeat_locals' = << [lastIndex |-> 0, matches |-> <<>>] >>
  /\ UNCHANGED <<password, ordered_list, ranked_dictionaries, pc, ret, matches, result,
                 stack>>

\* the loop ends (line 468 or 475) and repeat_match returns to the loop of
\* omnimatch (lines 523, 156-157)
RepeatExit ==
  /\ pc = 5
  /\ repeat_locals # <<>>
  /\ repeat_pass(password, repeat_locals[1].lastIndex) = <<>>
  /\ ret' = repeat_locals[1].matches
  /\ matches' = matches \o repeat_locals[1].matches
  /\ pc' = 6
  /\ repeat_locals' = <<>>
  /\ UNCHANGED <<password, ordered_list, ranked_dictionaries, result, stack>>

\* lines 468-504: a pass finds a match and calls omnimatch on its base token;
\* a failed assert (line 490) ends the program
RepeatCall ==
  /\ pc = 5
  /\ repeat_locals # <<>>
  /\ repeat_pass(password, repeat_locals[1].lastIndex) # <<>>
  /\ LET pass == repeat_pass(password, repeat_locals[1].lastIndex)[1]
     IN  IF pass.assert_ok
           THEN /\ stack' = Append(stack, [password |-> password,
                                           ordered_list |-> ordered_list,
                                           ranked_dictionaries |-> ranked_dictionaries,
                                           ret |-> ret,
                                           matches |-> matches,
                                           repeat_locals |-> repeat_locals,
                                           pass |-> pass])
                /\ password' = nested_argument(pass)
                /\ ordered_list' = <<>>
                /\ ranked_dictionaries' = <<>>
                /\ pc' = 0
                /\ ret' = <<>>
                /\ matches' = <<>>
                /\ result' = <<>>
                /\ repeat_locals' = <<>>
           ELSE /\ pc' = -1
                /\ UNCHANGED <<password, ordered_list, ranked_dictionaries, ret, matches,
                               result, stack, repeat_locals>>

\* lines 504-521: the nested omnimatch has returned; the match is pushed and
\* lastIndex moves past it
RepeatResume ==
  /\ pc = 10
  /\ stack # <<>>
  /\ LET caller == stack[Len(stack)]
         pass == caller.pass
     IN  /\ password' = caller.password
         /\ ordered_list' = caller.ordered_list
         /\ ranked_dictionaries' = caller.ranked_dictionaries
         /\ ret' = caller.ret
         /\ matches' = caller.matches
         /\ result' = <<>>
         /\ pc' = 5
         /\ repeat_locals' =
              << [lastIndex |-> pass.j + 1,
                  matches |-> Append(caller.repeat_locals[1].matches,
                                     Match(pass.i, pass.j, pass.token, "repeat",
                                           RepeatMatch(pass.base_token,
                                                       Len(pass.token) \div Len(pass.base_token))))] >>
         /\ stack' = SubSeq(stack, 1, Len(stack) - 1)

\* passwords made of short units, repeated and nested; a and k are no
\* neighbours in a dictionary word, in the alphabet or on a keyboard, so the
\* matches are those of the repeat matcher
RepeatPieces ==
  { <<>>, <<"a">>, <<"k">>, <<"a", "a">>, <<"a", "k">>, <<"a", "a", "k">>,
    <<"a", "k", "a", "k">> }

RepeatPasswords ==
  { a \o b \o c : a \in RepeatPieces, b \in RepeatPieces, c \in RepeatPieces }
  \cup { <<"a", "a", "b", "a", "a", "b", "a", "a", "b", "a", "a", "b">> }

InitNested ==
  /\ password \in RepeatPasswords
  /\ ordered_list = <<>>
  /\ ranked_dictionaries = <<>>
  /\ pc = 0
  /\ ret = <<>>
  /\ matches = <<>>
  /\ result = <<>>
  /\ stack = <<>>
  /\ repeat_locals = <<>>

NextNested ==
  \/ Start
  \/ DictionaryMatcher
  \/ ReverseDictionaryMatcher
  \/ L33tMatcher
  \/ SpatialMatcher
  \/ RepeatEnter
  \/ RepeatExit
  \/ RepeatCall
  \/ RepeatResume
  \/ SequenceMatcher
  \/ RegexMatcher
  \/ DateMatcher
  \/ Return

\* no step is possible: the outermost omnimatch has returned, or the assert
\* has ended the program
Halted == pc = -1 \/ (pc = 10 /\ stack = <<>>)

\* The program is sequential: while a step is possible, a step is taken.
\* This is weak fairness of NextNested, with ~Halted written for
\* ENABLED <<NextNested>>_vars: every pc from 0 to 9 has its action, and at
\* pc = 10 RepeatResume is possible exactly when an invocation waits.
Fairness == []<>Halted \/ []<><<NextNested>>_vars

SpecNested == InitNested /\ [][NextNested]_vars /\ Fairness

(***************************************************************************)
(* The properties.  After the n-th matcher has run, pc = n + 1 and ret is  *)
(* that matcher's return value; pc = 10 after the return, result being the *)
(* returned vector.                                                        *)
(***************************************************************************)
Slice(i, j) == SubSeq(password, i + 1, j + 1)

Patterns(ms) == {ms[k].pattern : k \in DOMAIN ms}

IsDictionary(m) == m.pattern = "dictionary"

\* C1: every match of the returned sequence has 0 <= i <= j < length(password)
\* and its token is the substring password[i..j], of length j - i + 1.
C1_TokenIsSlice ==
  \A k \in DOMAIN result :
    /\ 0 <= result[k].i /\ result[k].i <= result[k].j /\ result[k].j < Len(password)
    /\ result[k].token = Slice(result[k].i, result[k].j)
    /\ Len(result[k].token) = result[k].j - result[k].i + 1

\* a call has returned matches of three matchers, a reversed and a l33t
\* dictionary match and a sequence among them
C1_Witness ==
  /\ pc = 10
  /\ \E k \in DOMAIN result : IsDictionary(result[k]) /\ result[k].payload.reversed
  /\ \E k \in DOMAIN result : IsDictionary(result[k]) /\ result[k].payload.l33t
  /\ "sequence" \in Patterns(result)

KeyLeq(a, b) == a[1] < b[1] \/ (a[1] = b[1] /\ a[2] <= b[2])

Keys(ms) == {<<ms[k].i, ms[k].j>> : k \in DOMAIN ms}

\* ms in ascending order of (i, j), matches with equal (i, j) in the order
\* they have in ms
RECURSIVE StableFrom(_, _)
StableFrom(ms, keys) ==
  IF keys = {} THEN <<>>
  ELSE LET key == CHOOSE a \in keys : \A b \in keys : KeyLeq(a, b)
           has_key(m) == m.i = key[1] /\ m.j = key[2]
       IN  SelectSeq(ms, has_key) \o StableFrom(ms, keys \ {key})

Count(ms, m) == Cardinality({k \in DOMAIN ms : ms[k] = m})

\* C2 as stated: the returned sequence is ascending in (i, j), and matches
\* with equal (i, j) keep the order in which the matchers produced them.
C2_StableSort ==
  pc = 10 => result = StableFrom(matches, Keys(matches))

\* C2, amended: the returned sequence holds the matches the matchers produced,
\* each as often as produced, in ascending order of (i, j).
C2_SortedAscending ==
  pc = 10 =>
    /\ Len(result) = Len(matches)
    /\ \A k \in DOMAIN matches : Count(result, matches[k]) = Count(matches, matches[k])
    /\ \A k \in DOMAIN result : \A l \in DOMAIN result :
         k < l => KeyLeq(<<result[k].i, result[k].j>>, <<result[l].i, result[l].j>>)

\* a call has returned, two of its matches have the same (i, j), and the order
\* of the loop was not ascending
C2_Witness ==
  /\ pc = 10
  /\ \E k \in DOMAIN result : \E l \in DOMAIN result :
       k < l /\ result[k].i = result[l].i /\ result[k].j = result[l].j
  /\ result # matches

Spans(ms) == {<<ms[k].i, ms[k].j>> : k \in DOMAIN ms}

\* the occurrences of a recent year in pw from k on, left to right, none
\* overlapping the one before
RECURSIVE year_occurrences(_, _)
year_occurrences(pw, k) ==
  IF k + 4 > Len(pw) THEN {}
  ELSE IF recent_year_rx(substr(pw, k, 4))
    THEN {<<k, k + 3>>} \cup year_occurrences(pw, k + 4)
    ELSE year_occurrences(pw, k + 1)

\* C3 as stated: the regex matcher returns one match for every non-overlapping
\* occurrence of a recent year (19dd, 200d, 201d) anywhere in the password.
C3_EveryYearOccurrence ==
  pc = 8 =>
    /\ Spans(ret) = year_occurrences(password, 0)
    /\ Len(ret) = Cardinality(year_occurrences(password, 0))

IsPassword(text) == password = text

Pw1191 == <<"1", "1", "9", "1">>

Pw2015 == <<"2", "0", "1", "5", "_", "0", "6", "_", "0", "4">>

C5_DateInRange ==
  pc = 9 =>
    \A k \in DOMAIN ret :
      /\ ret[k].pattern = "date"
      /\ 1 <= ret[k].payload.day /\ ret[k].payload.day <= 31
      /\ 1 <= ret[k].payload.month /\ ret[k].payload.month <= 12
      /\ 1000 <= ret[k].payload.year /\ ret[k].payload.year <= 2050

\* the date matcher has returned a date whose year 1951 was written 51 and
\* one of the latest year, 2050
C5_Witness ==
  /\ pc = 9
  /\ \E k \in DOMAIN ret :
       /\ ret[k].payload.year = 1951
       /\ ret[k].payload.separator # <<>> /\ Len(ret[k].token) <= 6
  /\ \E k \in DOMAIN ret : ret[k].payload.year = 2050

\* the elements of ms whose range no other range of ms contains
Maximal(ms) ==
  {m \in {ms[k] : k \in DOMAIN ms} :
     ~ \E n \in DOMAIN ms :
         /\ <<ms[n].i, ms[n].j>> # <<m.i, m.j>>
         /\ ms[n].i <= m.i /\ m.j <= ms[n].j}

\* C6: the date matcher returns exactly the date matches it found whose range
\* no other found range contains, each once; for "2015_06_04" that is the one
\* match spanning the whole password.
C6_OnlyMaximalDates ==
  pc = 9 =>
    /\ {ret[k] : k \in DOMAIN ret} = Maximal(date_found(password))
    /\ Len(ret) = Cardinality(Maximal(date_found(password)))
    /\ IsPassword(Pw2015) => Spans(ret) = {<<0, 9>>} /\ Len(ret) = 1

\* the date matcher has returned the one match of "2015_06_04", having found
\* six or more
C6_Witness ==
  /\ pc = 9
  /\ IsPassword(Pw2015)
  /\ Len(date_found(password)) >= 6
  /\ Len(ret) = 1 /\ ret[1].i = 0 /\ ret[1].j = 9

RECURSIVE Repeated(_, _)
Repeated(base, n) == IF n <= 0 THEN <<>> ELSE base \o Repeated(base, n - 1)

PwAbcAbcAbc == <<"a", "b", "c", "a", "b", "c", "a", "b", "c">>

\* C7: every repeat match has repeat_count >= 2, a token as long as
\* repeat_count base tokens, and a token that is the base token written
\* repeat_count times; for "abcabcabc" the repeat matcher returns the one match
\* (0, 8) with base token "abc" and repeat_count 3.
C7_TokenIsRepeatedBase ==
  pc = 6 =>
    /\ \A k \in DOMAIN ret :
         /\ ret[k].pattern = "repeat"
         /\ ret[k].payload.repeat_count >= 2
         /\ Len(ret[k].token) = Len(ret[k].payload.base_token) * ret[k].payload.repeat_count
         /\ ret[k].token = Repeated(ret[k].payload.base_token, ret[k].payload.repeat_count)
    /\ IsPassword(PwAbcAbcAbc) =>
         ret = << Match(0, 8, PwAbcAbcAbc, "repeat", RepeatMatch(<<"a", "b", "c">>, 3)) >>

\* the repeat matcher has returned the match of "abcabcabc"
C7_Witness ==
  /\ pc = 6
  /\ IsPassword(PwAbcAbcAbc)
  /\ Len(ret) = 1
  /\ ret[1].payload.repeat_count = 3

\* the difference of the code points of the characters at 0-based k and k + 1
DeltaAt(pw, k) == Ord(pw[k + 2]) - Ord(pw[k + 1])

\* <<i, j, ascending>> for every run i..j of pw with one delta d between all
\* neighbours that can be extended on neither side, 0 < |d| <= 5, of three
\* characters at least unless |d| = 1
MaximalRuns(pw) ==
  {<<r[1], r[2], DeltaAt(pw, r[1]) > 0>> :
     r \in {q \in (0..(Len(pw) - 1)) \X (0..(Len(pw) - 1)) :
              /\ q[1] < q[2]
              /\ \A k \in q[1]..(q[2] - 1) : DeltaAt(pw, k) = DeltaAt(pw, q[1])
              /\ q[1] = 0 \/ DeltaAt(pw, q[1] - 1) # DeltaAt(pw, q[1])
              /\ q[2] = Len(pw) - 1 \/ DeltaAt(pw, q[2]) # DeltaAt(pw, q[1])
              /\ 0 < Abs(DeltaAt(pw, q[1])) /\ Abs(DeltaAt(pw, q[1])) <= 5
              /\ q[2] - q[1] + 1 >= 3 \/ Abs(DeltaAt(pw, q[1])) = 1}}

PwSequences == <<"a", "b", "c", "d", "b", "9", "7", "5", "z", "y">>

\* C8: the sequence matcher returns exactly the maximal runs of constant
\* delta d with 0 < |d| <= 5 that have three characters or |d| = 1, each
\* once and with ascending = (d > 0); for "abcdb975zy" the spans are (0, 3),
\* (5, 7) and (8, 9); for a password of one character there is no match.
C8_MaximalRuns ==
  pc = 7 =>
    /\ {<<ret[k].i, ret[k].j, ret[k].payload.ascending>> : k \in DOMAIN ret}
         = MaximalRuns(password)
    /\ Len(ret) = Cardinality(MaximalRuns(password))
    /\ \A k \in DOMAIN ret : ret[k].pattern = "sequence"
    /\ IsPassword(PwSequences) =>
         Spans(ret) = {<<0, 3>>, <<5, 7>>, <<8, 9>>} /\ Len(ret) = 3
    /\ Len(password) = 1 => ret = <<>>

\* the sequence matcher has returned the three matches of "abcdb975zy", one
\* ascending and two descending
C8_Witness ==
  /\ pc = 7
  /\ IsPassword(PwSequences)
  /\ Len(ret) = 3
  /\ ret[1].payload.ascending /\ ~ret[2].payload.ascending /\ ~ret[3].payload.ascending

PwP4ssword == <<"p", "4", "s", "s", "w", "o", "r", "d">>

\* C9: every match of the leet matcher has l33t = true, a token of two
\* characters at least, and a token whose lowercased form is not the matched
\* word; for "p4ssword" there is a match (0, 7) with matched word "password"
\* and a substitution map with 4 -> a.
C9_RealSubstitution ==
  pc = 4 =>
    /\ \A k \in DOMAIN ret :
         /\ IsDictionary(ret[k])
         /\ ret[k].payload.l33t = TRUE
         /\ Len(ret[k].token) >= 2
         /\ ascii_lower(ret[k].token) # ret[k].payload.matched_word
    /\ IsPassword(PwP4ssword) =>
         \E k \in DOMAIN ret :
           /\ ret[k].i = 0 /\ ret[k].j = 7
           /\ ret[k].payload.matched_word = <<"p", "a", "s", "s", "w", "o", "r", "d">>
           /\ "4" \in DOMAIN ret[k].payload.sub
           /\ ret[k].payload.sub["4"] = "a"

\* the leet matcher has returned the match of "p4ssword"
C9_Witness ==
  /\ pc = 4
  /\ IsPassword(PwP4ssword)
  /\ \E k \in DOMAIN ret :
       ret[k].i = 0 /\ ret[k].j = 7 /\ ret[k].payload.l33t /\ ret[k].token = PwP4ssword

\* the match of password[i..j] in the dictionary tag
ExpectedDictionaryMatch(tag, i, j) ==
  Match(i, j, Slice(i, j), "dictionary",
        DictionaryMatch(tag, ascii_lower(Slice(i, j)),
                        ranked_dictionaries[tag][ascii_lower(Slice(i, j))],
                        FALSE, FALSE, <<>>, <<>>))

ExpectedDictionaryMatches ==
  {ExpectedDictionaryMatch(t[1], t[2], t[3]) :
     t \in {u \in (DOMAIN ranked_dictionaries) \X (0..(Len(password) - 1))
                    \X (0..(Len(password) - 1)) :
              /\ u[2] <= u[3]
              /\ ascii_lower(Slice(u[2], u[3])) \in DOMAIN ranked_dictionaries[u[1]]}}

\* C10: the dictionary scanner returns one match for every dictionary d and
\* every i <= j such that the lowercased password[i..j] is a key of d, and
\* nothing else; the match has d's tag, the lowercased substring as matched
\* word, its rank in d, reversed = false and l33t = false.
C10_OneMatchPerDictionaryAndSpan ==
  pc = 2 =>
    /\ {ret[k] : k \in DOMAIN ret} = ExpectedDictionaryMatches
    /\ Len(ret) = Cardinality(ExpectedDictionaryMatches)

\* the dictionary scanner has returned two matches of one substring, from two
\* dictionaries, the substring having an upper-case letter
C10_Witness ==
  /\ pc = 2
  /\ \E k \in DOMAIN ret : \E l \in DOMAIN ret :
       /\ ret[k].i = ret[l].i /\ ret[k].j = ret[l].j
       /\ ret[k].payload.dictionary_tag # ret[l].payload.dictionary_tag
       /\ ret[k].token # ret[k].payload.matched_word

\* the matches of ms found on one graph, in the order of ms
OfGraph(ms, tag) ==
  LET on_graph(m) == m.payload.graph_tag = tag
  IN  SelectSeq(ms, on_graph)

PwQwerty == <<"q", "w", "e", "r", "t", "y">>

\* C11: every match of the spatial matcher has a token of three characters at
\* least, turns >= 1 and shifted_count <= token length; the matches of one
\* graph come in increasing index order and do not overlap; for "qwerty" the
\* qwerty graph gives the one match (0, 5) with turns = 1, shifted_count = 0.
C11_SpatialRuns ==
  pc = 5 =>
    /\ \A k \in DOMAIN ret :
         /\ ret[k].pattern = "spatial"
         /\ Len(ret[k].token) >= 3
         /\ ret[k].payload.turns >= 1
         /\ ret[k].payload.shifted_count <= Len(ret[k].token)
    /\ \A tag \in DOMAIN graphs :
         \A k \in DOMAIN OfGraph(ret, tag) : \A l \in DOMAIN OfGraph(ret, tag) :
           k < l => OfGraph(ret, tag)[k].j < OfGraph(ret, tag)[l].i
    /\ IsPassword(PwQwerty) =>
         OfGraph(ret, "QWERTY")
           = << Match(0, 5, PwQwerty, "spatial", SpatialMatch("QWERTY", 1, 0)) >>

\* the spatial matcher has returned two runs of one graph, one of them with a
\* shifted key and one with more than one turn
C11_Witness ==
  /\ pc = 5
  /\ \E tag \in DOMAIN graphs : Len(OfGraph(ret, tag)) >= 2
  /\ \E k \in DOMAIN ret : ret[k].payload.shifted_count >= 1
  /\ \E k \in DOMAIN ret : ret[k].payload.turns >= 2

\* the password of the outermost invocation of omnimatch
OutermostPassword == IF stack = <<>> THEN password ELSE stack[1].password

\* a step that returns from the nested omnimatch into the loop of repeat_match
\* leaves lastIndex greater than it was when the pass began
LastIndexGrows ==
  Len(stack') < Len(stack) =>
    repeat_locals'[1].lastIndex > stack[Len(stack)].repeat_locals[1].lastIndex

\* a step that enters a nested omnimatch gives it a password shorter than the
\* password of the invocation that makes the call
NestedPasswordShorter ==
  Len(stack') > Len(stack) => Len(password') < Len(password)

\* C12: omnimatch terminates: each pass of the loop of repeat_match increases
\* lastIndex, every nested omnimatch is on a base token shorter than the
\* password of the invocation that calls it, the depth of the recursion never
\* exceeds the length of the password, and the outermost invocation returns.
C12_Terminates ==
  /\ [][LastIndexGrows /\ NestedPasswordShorter]_vars
  /\ [](Len(stack) <= Len(OutermostPassword))
  /\ <>(pc = 10 /\ stack = <<>>)

\* a nested omnimatch, called by the repeat matcher of a nested omnimatch, has
\* returned to the loop of a repeat_match in its second pass
C12_Witness ==
  /\ Len(stack) = 2
  /\ pc = 10
  /\ stack[1].repeat_locals[1].lastIndex > 0

\* C13: omnimatch on the empty password returns the empty sequence, whatever
\* the user word list: no matcher emits a match, and none reads out of range
\* (which would end the program before the return).
C13_EmptyPassword ==
  IsPassword(<<>>) =>
    /\ pc # -1
    /\ ret = <<>>
    /\ matches = <<>>
    /\ result = <<>>

\* omnimatch has returned for the empty password and a user word list that is
\* not empty
C13_Witness ==
  /\ IsPassword(<<>>)
  /\ ordered_list # <<>>
  /\ pc = 10

PwAabAab == <<"a", "a", "b", "a", "a", "b", "a", "a", "b", "a", "a", "b">>

\* token is its first n characters written a whole number of times
IsUnitLength(token, n) ==
  /\ Len(token) % n = 0
  /\ \A k \in DOMAIN token : token[k] = token[((k - 1) % n) + 1]

\* C14: the base token of a repeat match is the shortest repeating unit of the
\* token: the token is the base token written a whole number of times, and
\* no shorter string is; "aabaabaabaab" has the one match with base token
\* "aab" and repeat_count 4.  The invariant covers the matches of the nested
\* calls as well.
C14_ShortestBase ==
  pc = 6 =>
    /\ \A k \in DOMAIN ret :
         /\ ret[k].payload.base_token = SubSeq(ret[k].token, 1, Len(ret[k].payload.base_token))
         /\ IsUnitLength(ret[k].token, Len(ret[k].payload.base_token))
         /\ \A n \in 1..(Len(ret[k].payload.base_token) - 1) : ~IsUnitLength(ret[k].token, n)
    /\ IsPassword(PwAabAab) =>
         ret = << Match(0, 11, PwAabAab, "repeat", RepeatMatch(<<"a", "a", "b">>, 4)) >>

\* the greedy pattern has won (the lazy one matches "aa" only) and the repeat
\* matcher has returned "aab" four times
C14_Witness ==
  /\ pc = 6
  /\ stack = <<>>
  /\ IsPassword(PwAabAab)
  /\ Len(ret) = 1
  /\ ret[1].payload.base_token = <<"a", "a", "b">> /\ ret[1].payload.repeat_count = 4

\* the text the greedy and the lazy pattern match in password from lastIndex
\* on: <<>> when they do not match
GreedyText(lastIndex) ==
  LET rest == SubSeq(password, lastIndex + 1, Len(password))
      found == regex_search_repeat(rest, TRUE)
  IN  IF found = <<>> THEN <<>> ELSE substr(rest, found[1].position, found[1].length)

LazyText(lastIndex) ==
  LET rest == SubSeq(password, lastIndex + 1, Len(password))
      found == regex_search_repeat(rest, FALSE)
  IN  IF found = <<>> THEN <<>> ELSE substr(rest, found[1].position, found[1].length)

\* C15: the assert of repeat_match never fails: at every scan position of
\* every invocation, a greedy match longer than the lazy match is a string
\* that ^(.+?)\1+$ matches as a whole, and the program is never ended by the
\* assert.
C15_AssertHolds ==
  /\ pc # -1
  /\ (pc = 5 /\ repeat_locals # <<>>) =>
       LET greedy == GreedyText(repeat_locals[1].lastIndex)
           lazy == LazyText(repeat_locals[1].lastIndex)
       IN  Len(greedy) > Len(lazy) =>
             /\ regex_search_lazy_anchored(greedy) # <<>>
             /\ regex_search_lazy_anchored(greedy)[1].length = Len(greedy)
             /\ repeat_pass(password, repeat_locals[1].lastIndex)[1].assert_ok

\* the loop of repeat_match is at a scan position after a first match, where
\* the greedy pattern matches more than the lazy one
C15_Witness ==
  /\ pc = 5
  /\ repeat_locals # <<>>
  /\ repeat_locals[1].lastIndex > 0
  /\ Len(GreedyText(repeat_locals[1].lastIndex)) > Len(LazyText(repeat_locals[1].lastIndex))

\* the lowercased reversal of password[i..j]
ReversedLower(i, j) == ascii_lower([k \in 1..(j - i + 1) |-> password[j + 2 - k]])

ExpectedReverseMatches ==
  {Match(t[2], t[3], Slice(t[2], t[3]), "dictionary",
         DictionaryMatch(t[1], ReversedLower(t[2], t[3]),
                         ranked_dictionaries[t[1]][ReversedLower(t[2], t[3])],
                         TRUE, FALSE, <<>>, <<>>)) :
     t \in {u \in (DOMAIN ranked_dictionaries) \X (0..(Len(password) - 1))
                    \X (0..(Len(password) - 1)) :
              /\ u[2] <= u[3]
              /\ ReversedLower(u[2], u[3]) \in DOMAIN ranked_dictionaries[u[1]]}}

PwTac == <<"t", "a", "c">>

\* C16: the reverse-dictionary matcher returns one match for every dictionary
\* d and every i <= j such that the lowercased reversal of password[i..j] is a
\* key of d, and nothing else; the match has reversed = true, the reversal as
\* matched word, and the indices i, j of the substring in the password; for
\* "tac" there is the match (0, 2) of "cat".
C16_ReverseMatches ==
  pc = 3 =>
    /\ {ret[k] : k \in DOMAIN ret} = ExpectedReverseMatches
    /\ Len(ret) = Cardinality(ExpectedReverseMatches)
    /\ IsPassword(PwTac) =>
         \E k \in DOMAIN ret :
           /\ ret[k].i = 0 /\ ret[k].j = 2
           /\ ret[k].payload.matched_word = <<"c", "a", "t">>
           /\ ret[k].payload.reversed = TRUE

\* the reverse-dictionary matcher has returned the match of "tac"
C16_Witness ==
  /\ pc = 3
  /\ IsPassword(PwTac)
  /\ \E k \in DOMAIN ret : ret[k].token = PwTac /\ ret[k].payload.reversed

=============================================================================
